---- MODULE Spec2Model ----
\* duplicate (busoc/duplicate): the delayed-replay ring buffer of main.go and the
\* fan-out dispatcher built on it (main, listenUDP, listenTCP, Duplicate).
\*
\* The state machines share the ring operators:
\*   SpecRing  one ring, one writer calling Write, one reader calling Read,
\*             either of them calling Close; the copies move one byte a step;
\*   Spec      the whole process: main starts one worker per route, the listener
\*             copies inbound data into io.MultiWriter, the workers copy their
\*             sink to their outbound connection, errgroup joins them.
\*   FairSpec  Spec with weak fairness on every step but the inbound peer's;
\*   SpecWorker  the workers alone, each on a sink a caller writes to and closes.
\*   SpecGap   one ring, whole Write and Read calls: the gaps Write records.
\*   SpecReplay  the ring of ring.go (the relay), whose Read replays the gaps.
\*   SpecCount  the byte-counting Ring (NewRingSize) with its goroutine syncboth,
\*             one writer and one reader, whose copies move one byte a step.
EXTENDS Integers, Sequences, FiniteSets, TLC

\* ---------------------------------------------------------------- bounds
Cap == 3            \* len(r.buffer), the ring's capacity in bytes
QueueSize == 2      \* cap(r.queue), DefaultQueueSize scaled down
MaxWrites == 3      \* Write calls of the SpecRing writer
MaxTime == 2        \* the clock shows MaxTime at MaxTime and at any later time
MaxLen == Cap + 1   \* the longest chunk written: one byte more than the ring holds
MaxIn == 3          \* chunks the inbound stream delivers
MaxConns == 1       \* inbound TCP connections
MaxCloses == 2      \* Close calls on the SpecRing ring
RingSize == 2       \* s of NewRingSize(s): len(r.buffer) of the byte-counting Ring

\* ---------------------------------------------------------------- values
ErrNil == "nil"
ErrClosed == "ring already closed"       \* main.go:21
ErrShortBuffer == "short buffer"         \* io.ErrShortBuffer
ErrClosedPipe == "io: read/write on closed pipe"  \* io.ErrClosedPipe
ErrWrite == "write: connection reset"    \* an error of the outbound connection's Write
ErrAccept == "accept: error"             \* an error of the listener's Accept
EOF == "EOF"                             \* io.EOF
Panic == "panic: send on closed channel" \* a send on a closed channel
Blocked == "blocked"                     \* the call has not returned: the goroutine is suspended

ZeroTime == 0       \* time.Time{}: r.when before the first Write
Wait == 1           \* the route's delay d > 0 handed to withDelay

Min(a, b) == IF a < b THEN a ELSE b

\* the bytes of the id-th write of n bytes: every byte of every write differs
Payload(id, n) == [j \in 1..n |-> 10 * id + j]

Zeros(n) == [j \in 1..n |-> 0]

\* xs[n:]
Drop(xs, n) == SubSeq(xs, n + 1, Len(xs))

\* Go's builtin copy(dst[at:], src): the number of bytes copied ...
CopyLen(dst, at, src) == Min(Len(dst) - at, Len(src))

\* ... and dst afterwards
CopyAt(dst, at, src) ==
    [j \in 1..Len(dst) |->
        IF j > at /\ j <= at + CopyLen(dst, at, src) THEN src[j - at] ELSE dst[j]]

\* the number of bytes copy(buf[off:], xs) and then copy(buf, xs[n:]) move for a
\* chunk of the given size: the tail of the buffer first, the rest from index 0
CopyCount(buf, off, size) ==
    LET n == Min(size, Len(buf) - off)
    IN n + Min(Len(buf), size - n)

\* ---------------------------------------------------------------- ring
\* withDelay(wait): sets r.wait when wait > 0
withDelay(r, wait) == IF wait <= 0 THEN r ELSE [r EXCEPT !.wait = wait]

\* DefaultBufferSize (8 << 20), scaled down to the capacity of the model
DefaultBufferSize == Cap

\* Ring(size, withDelay(wait)): a zeroed buffer, an open empty queue
Ring(size, wait) ==
    withDelay([buffer |-> Zeros(IF size <= 0 THEN DefaultBufferSize ELSE size),
               queue |-> << >>, closed |-> FALSE,
               offset |-> 0, when |-> ZeroTime, wait |-> 0], wait)

\* Close without its sync.Once: every call reports success
Close_noonce(r) == [ring |-> [r EXCEPT !.closed = TRUE], err |-> ErrNil]

\* ring.Close: the first call closes the queue and returns nil, later calls
\* return ErrClosed
Close(r) ==
    IF r.closed THEN [ring |-> r, err |-> ErrClosed]
    ELSE [ring |-> [r EXCEPT !.closed = TRUE], err |-> ErrNil]

\* the write without its second copy: the bytes past the end of the buffer are dropped
WriteBuffer_nowrap(r, xs) ==
    [r EXCEPT !.buffer = CopyAt(r.buffer, r.offset, xs),
              !.offset = (r.offset + Len(xs)) % Len(r.buffer)]

\* the write that restarts the cursor at index 0 whenever the chunk wraps
WriteBuffer_reset(r, xs) ==
    LET n == CopyLen(r.buffer, r.offset, xs)
        b1 == CopyAt(r.buffer, r.offset, xs)
    IN IF n < Len(xs)
       THEN [r EXCEPT !.buffer = CopyAt(b1, 0, Drop(xs, n)), !.offset = 0]
       ELSE [r EXCEPT !.buffer = b1, !.offset = r.offset + n]

\* ring.Write, lines 406-412: the bytes go into the buffer at the write cursor,
\* the tail first and the rest from index 0
WriteBuffer(r, xs) ==
    LET n == CopyLen(r.buffer, r.offset, xs)
        b1 == CopyAt(r.buffer, r.offset, xs)
    IN IF n < Len(xs)
       THEN [r EXCEPT !.buffer = CopyAt(b1, 0, Drop(xs, n)),
                      !.offset = CopyLen(b1, 0, Drop(xs, n))]
       ELSE [r EXCEPT !.buffer = b1, !.offset = r.offset + n]

\* ring.Write, lines 413-423: the descriptor, and the reference time
WriteCopy(r, xs, t) ==
    LET r1 == WriteBuffer(r, xs)
        pz == [size |-> Len(xs), offset |-> r.offset,
               elapsed |-> IF r.wait > 0 /\ r.when # ZeroTime
                           THEN t - r.when ELSE r.wait]
    IN [ring |-> IF r.wait > 0 THEN [r1 EXCEPT !.when = t] ELSE r1, pz |-> pz]

\* the select without its default case: the send waits for room in the queue
WriteSelect_blocking(r, pz) ==
    IF r.closed THEN [ring |-> r, n |-> 0, err |-> Panic]
    ELSE IF Len(r.queue) < QueueSize
    THEN [ring |-> [r EXCEPT !.queue = Append(r.queue, pz)], n |-> pz.size, err |-> ErrNil]
    ELSE [ring |-> r, n |-> 0, err |-> Blocked]

\* a queue that hands out the newest descriptor first
WriteSelect_front(r, pz) ==
    IF r.closed THEN [ring |-> r, n |-> 0, err |-> Panic]
    ELSE IF Len(r.queue) < QueueSize
    THEN [ring |-> [r EXCEPT !.queue = <<pz>> \o r.queue], n |-> pz.size, err |-> ErrNil]
    ELSE [ring |-> r, n |-> 0, err |-> ErrClosed]

\* ring.Write, lines 424-429: select { case r.queue <- pz: ... default: ... }.
\* A send on a closed channel panics, also inside a select with a default.
WriteSelect(r, pz) ==
    IF r.closed THEN [ring |-> r, n |-> 0, err |-> Panic]
    ELSE IF Len(r.queue) < QueueSize
    THEN [ring |-> [r EXCEPT !.queue = Append(r.queue, pz)], n |-> pz.size, err |-> ErrNil]
    ELSE [ring |-> r, n |-> 0, err |-> ErrClosed]

\* ring.Write as one call
Write(r, xs, t) ==
    LET c == WriteCopy(r, xs, t) IN WriteSelect(c.ring, c.pz)

\* a receive that the close of the queue does not wake
CanReceive_open(r) == r.queue # << >>

\* ring.Read, line 433: pz, ok := <-r.queue can proceed (a descriptor is queued,
\* or the queue is closed); otherwise the reader is suspended
CanReceive(r) == r.queue # << >> \/ r.closed

\* the copy without the size check of lines 437-440
ReadCopy_nocheck(r, pz, xs) ==
    LET src == Drop(r.buffer, pz.offset)
        n == CopyLen(xs, 0, src)
        x1 == CopyAt(xs, 0, src)
    IN [n |-> pz.size, err |-> ErrNil,
        xs |-> IF n < pz.size THEN CopyAt(x1, n, r.buffer) ELSE x1]

\* ring.Read, lines 437-445, with the descriptor pz received and the caller's
\* buffer xs: the bytes at pz.offset, then the bytes from index 0
ReadCopy(r, pz, xs) ==
    IF Len(xs) < pz.size THEN [n |-> 0, err |-> ErrShortBuffer, xs |-> xs]
    ELSE LET src == Drop(r.buffer, pz.offset)
             n == CopyLen(xs, 0, src)
             x1 == CopyAt(xs, 0, src)
         IN [n |-> pz.size, err |-> ErrNil,
             xs |-> IF n < pz.size THEN CopyAt(x1, n, r.buffer) ELSE x1]

\* ring.Read as one call that does not wait (CanReceive(r) holds)
Read(r, xs) ==
    IF r.queue = << >> THEN [ring |-> r, n |-> 0, err |-> EOF, xs |-> xs]
    ELSE LET c == ReadCopy(r, Head(r.queue), xs)
         IN [ring |-> [r EXCEPT !.queue = Tail(r.queue)], n |-> c.n, err |-> c.err, xs |-> c.xs]

\* ---------------------------------------------------------------- state
VARIABLES
    now,        \* the wall clock when last read, 1..MaxTime (MaxTime: MaxTime or later)
    rg,         \* SpecRing: the ring
    wr,         \* SpecRing: the writer: pc, the chunk being written, the bytes of it
                \*           stored so far, its descriptor
    rd,         \* SpecRing: the reader: pc, the descriptor received, the buffer
                \*           length, the bytes copied so far
    nw,         \* SpecRing: Write calls so far
    stored,     \* SpecRing: bytes put into the buffer so far, accepted or not
    pend,       \* SpecRing: the accepted writes no Read has received yet, in order
    unread,     \* SpecRing: the accepted writes no Read has returned yet, in order
    rlast,      \* SpecRing: the last Read that received a descriptor, and the
                \*           accepted write whose turn it was; cleared when the
                \*           next Read receives its descriptor
    wres,       \* SpecRing: what the last Write returned
    rres,       \* SpecRing: what the last Read returned
    cres,       \* SpecRing: what the Close calls returned, in order
    crashed,    \* the process died of a panic
    cfg,        \* Spec: the inbound descriptor: protocol, keep-listen
    routes,     \* Spec: the route list
    sinks,      \* Spec: per route, the sink: a ring or an io.Pipe
    mpc,        \* Spec: where main is
    wk,         \* Spec: per route, the worker (the closure Duplicate returns)
    ls,         \* Spec: the listener (the closure listenUDP or listenTCP returns)
    gerr,       \* Spec: errgroup: the first error a task returned
    nin,        \* Spec: chunks received from the inbound stream so far
    nconn,      \* Spec: inbound connections accepted so far
    offered,    \* Spec: per route, the last inbound chunk whose Write was issued to the sink
    rs,         \* SpecCount: the byte-counting Ring: buffer, tail, head
    sb,         \* SpecCount: the goroutine syncboth: its position, available, the count asked
                \*            for, whether the last Read served had to wait for a Write
    bw,         \* SpecCount: the writer: its position, its chunk bs, n of line 40, the bytes
                \*            stored so far, the chunk's id
    br,         \* SpecCount: the reader: its position, its buffer bs, n of line 30, the bytes
                \*            loaded so far
    ahead       \* SpecCount: the bytes Write has stored minus the bytes Read has returned

rvars == <<rg, wr, rd, nw, stored, pend, unread, rlast, wres, rres, cres>>
dvars == <<cfg, routes, sinks, mpc, wk, ls, gerr, nin, nconn, offered>>
cvars == <<rs, sb, bw, br, ahead>>
vars == <<now, rvars, crashed, dvars, cvars>>

\* wr: the writer's position, the chunk and the descriptor of the Write under
\* way, off the cursor it started at (offset of line 406), i the bytes of it in
\* the buffer, end the bytes stored when it ends; acc: when the last accepted
\* Write was accepted; rej: some Write has been rejected; nacc: the Writes
\* accepted so far; ids: which Write calls were accepted, in order; log: the
\* cursor each of them started at and its len(xs), kept by the writer.
\* rd: the reader's position, the descriptor received, len(xs), the bytes copied
\* into xs so far, k the descriptors received so far.
\* An accepted write carries its rank among the accepted writes (seq); rlast.prev
\* is the outcome and the rank of the Read before the one rlast is about.
\* the sizes the SpecRing writer writes, and the buffers the reader reads into
WriteLens == {1, Cap - 1, MaxLen}
ReadLens == {1, MaxLen}

NoPz == [size |-> 0, offset |-> 0, elapsed |-> 0]
NoWrite == [data |-> << >>, pz |-> NoPz, end |-> 0, seq |-> 0]
NoRead == [pz |-> NoPz, n |-> 0, err |-> "none", data |-> << >>, exp |-> NoWrite,
           kth |-> NoWrite, at |-> 0, len |-> 0, und |-> 0, closed |-> FALSE,
           prev |-> [err |-> "none", seq |-> 0], k |-> 0]
NoResult == [n |-> 0, err |-> "none", full |-> FALSE, closed |-> FALSE]

\* rings are created with a positive delay only (main.go:199-200)
RingIdle ==
    /\ rg = Ring(Cap, Wait)
    /\ wr = [pc |-> "idle", xs |-> << >>, pz |-> NoPz, end |-> 0, acc |-> ZeroTime, rej |-> FALSE,
             nacc |-> 0, off |-> 0, i |-> 0, ids |-> << >>, log |-> << >>]
    /\ rd = [pc |-> "idle", pz |-> NoPz, len |-> 0, exp |-> NoWrite, data |-> << >>, k |-> 0]
    /\ nw = 0
    /\ stored = 0
    /\ pend = << >>
    /\ unread = << >>
    /\ rlast = NoRead
    /\ wres = NoResult
    /\ rres = [n |-> 0, err |-> "none"]
    /\ cres = << >>

\* ---------------------------------------------------------------- the process
\* a route: its delay (0: none), the protocol dialled, whether a certificate is
\* configured (Certificate.Client wraps the TCP connection in a tls.Conn)
RouteKinds ==
    {k \in [delay : {0, Wait}, proto : {"udp", "tcp"}, tls : BOOLEAN, buffer : {Cap}] :
        k.tls => k.proto = "tcp"}

RouteIds == {1, 2}
NRoutes == Cardinality(RouteIds)

\* the inbound descriptor: protocol and keep-listen (-k)
ListenKinds ==
    {c \in [proto : {"udp", "tcp"}, forever : BOOLEAN] : c.forever => c.proto = "tcp"}

\* the buffer io.Copy reads into (32 KiB), scaled down: no chunk is longer
CopyBufferSize == MaxLen

\* the sizes of the inbound chunks
InLens == {1}

NoRing == [buffer |-> << >>, queue |-> << >>, closed |-> FALSE,
           offset |-> 0, when |-> ZeroTime, wait |-> 0]
NoSink == [kind |-> "none", ring |-> NoRing, rclosed |-> FALSE, wclosed |-> FALSE]
\* a worker: its position, the chunk in hand, what io.Copy returned, what the
\* worker returned, when its sleep ends; acc: when each descriptor queued in its
\* ring was accepted, cur: when the chunk in hand was
NoWorker == [pc |-> "init", data |-> << >>, cerr |-> ErrNil,
             ret |-> ErrNil, wake |-> 0, acc |-> << >>, cur |-> 0]
NoListener == [pc |-> "init", data |-> << >>, idx |-> 0, cerr |-> ErrNil, ret |-> ErrNil]

ProcessIdle ==
    /\ sinks = [i \in RouteIds |-> NoSink]
    /\ mpc = "setup"
    /\ wk = [i \in RouteIds |-> NoWorker]
    /\ ls = NoListener
    /\ gerr = ErrNil
    /\ nin = 0
    /\ nconn = 0
    /\ offered = [i \in RouteIds |-> 0]

\* NewRingSize(s): a zeroed buffer, tail and head at 0; rchan and wchan are
\* unbuffered, so what they hold is where the goroutines using them stand
NewRingSize(s) == [buffer |-> Zeros(s), tail |-> 0, head |-> 0]

\* the byte-counting Ring as NewRingSize leaves it: syncboth at its select with
\* available = 0, no call under way
CountIdle ==
    /\ rs = NewRingSize(RingSize)
    /\ sb = [pc |-> "select", available |-> 0, n |-> 0, waited |-> FALSE]
    /\ bw = [pc |-> "idle", bs |-> << >>, n |-> 0, id |-> 1, i |-> 0]
    /\ br = [pc |-> "idle", bs |-> << >>, n |-> 0, i |-> 0]
    /\ ahead = 0

InitRing ==
    /\ CountIdle
    /\ now = 1
    /\ crashed = FALSE
    /\ RingIdle
    /\ cfg = [proto |-> "udp", forever |-> FALSE]
    /\ routes = [i \in RouteIds |-> [delay |-> Wait, proto |-> "udp", tls |-> FALSE, buffer |-> Cap]]
    /\ ProcessIdle

\* the writer enters Write(xs) with len(xs) = n: line 406, the cursor and the
\* size are read
WriteBegin(n) ==
    /\ ~crashed
    /\ wr.pc = "idle"
    /\ nw < MaxWrites
    /\ wr' = [wr EXCEPT !.pc = "copy", !.xs = Payload(nw + 1, n), !.off = rg.offset,
                        !.i = 0, !.pz = NoPz, !.end = stored + n]
    /\ nw' = nw + 1
    /\ stored' = stored + n
    /\ UNCHANGED <<now, rg, rd, pend, unread, rlast, wres, rres, cres, crashed, dvars, cvars>>

\* lines 408-409, the copies into r.buffer, one byte a step: the buffer holds the
\* first wr.i + 1 bytes the two copies store. Nothing orders these stores with
\* the copies of Read (lines 442-443), which may see any part of them.
WriteByte ==
    /\ ~crashed
    /\ wr.pc = "copy"
    /\ wr.i < CopyCount(rg.buffer, wr.off, Len(wr.xs))
    /\ rg' = [rg EXCEPT !.buffer = WriteBuffer([rg EXCEPT !.offset = wr.off],
                                                SubSeq(wr.xs, 1, wr.i + 1)).buffer]
    /\ wr' = [wr EXCEPT !.i = wr.i + 1]
    /\ UNCHANGED <<now, rd, nw, stored, pend, unread, rlast, wres, rres, cres, crashed,
                   dvars, cvars>>

\* lines 409-423: the cursor moves, the descriptor is made, the clock is read
\* and the reference time is set. The calls of SpecRing follow one another
\* within one reading of the clock; the gaps between Writes are the matter of
\* SpecGap.
WriteMark ==
    /\ ~crashed
    /\ wr.pc = "copy"
    /\ wr.i = CopyCount(rg.buffer, wr.off, Len(wr.xs))
    /\ LET c == WriteCopy([rg EXCEPT !.offset = wr.off], wr.xs, now)
       IN /\ rg' = [rg EXCEPT !.offset = c.ring.offset, !.when = c.ring.when]
          /\ wr' = [wr EXCEPT !.pc = "select", !.pz = c.pz]
    /\ UNCHANGED <<now, rd, nw, stored, pend, unread, rlast, wres, rres, cres, crashed,
                   dvars, cvars>>

\* the writer's select, lines 424-429: Write returns, or the process panics
WriteEnd ==
    /\ ~crashed
    /\ wr.pc = "select"
    /\ LET s == WriteSelect(rg, wr.pz)
           w == [data |-> wr.xs, pz |-> wr.pz, end |-> wr.end, seq |-> wr.nacc + 1]
       IN /\ s.err # Blocked
          /\ rg' = s.ring
          /\ crashed' = (s.err = Panic)
          /\ wres' = IF s.err = Panic THEN wres
                     ELSE [n |-> s.n, err |-> s.err,
                           full |-> Len(rg.queue) >= QueueSize, closed |-> rg.closed]
          /\ pend' = IF s.err = ErrNil THEN Append(pend, w) ELSE pend
          /\ unread' = IF s.err = ErrNil THEN Append(unread, w) ELSE unread
    /\ wr' = [wr EXCEPT !.pc = "idle",
                        !.acc = IF WriteSelect(rg, wr.pz).err = ErrNil THEN now ELSE wr.acc,
                        !.rej = wr.rej \/ WriteSelect(rg, wr.pz).err = ErrClosed,
                        !.nacc = IF WriteSelect(rg, wr.pz).err = ErrNil THEN @ + 1 ELSE @,
                        !.ids = IF WriteSelect(rg, wr.pz).err = ErrNil THEN Append(@, nw) ELSE @,
                        !.log = IF WriteSelect(rg, wr.pz).err = ErrNil
                                THEN Append(@, [offset |-> wr.off, size |-> Len(wr.xs)])
                                ELSE @]
    /\ UNCHANGED <<now, rd, nw, stored, rlast, rres, cres, dvars, cvars>>

\* the reader enters Read(xs) with len(xs) = n and receives from the queue: line 433
ReadBegin(n) ==
    /\ ~crashed
    /\ rd.pc = "idle"
    /\ CanReceive(rg)
    /\ IF rg.queue # << >>
       THEN /\ rd' = [pc |-> "copy", pz |-> Head(rg.queue), len |-> n, exp |-> Head(pend),
                      data |-> << >>, k |-> rd.k + 1]
            /\ rg' = [rg EXCEPT !.queue = Tail(rg.queue)]
            /\ pend' = Tail(pend)
            /\ rlast' = [NoRead EXCEPT !.prev = [err |-> rlast.err, seq |-> rlast.exp.seq]]
            /\ UNCHANGED rres
       ELSE /\ rres' = [n |-> 0, err |-> EOF]
            /\ UNCHANGED <<rd, rg, pend, rlast>>
    /\ UNCHANGED <<now, wr, nw, stored, unread, wres, cres, crashed, dvars, cvars>>

\* the bytes of the chunks no Read has returned yet: the chunk the reader is
\* copying, the accepted chunks still queued, the chunk a Write is storing or
\* has stored and is about to queue
RECURSIVE SumSizes(_)
SumSizes(ws) == IF ws = << >> THEN 0 ELSE Head(ws).pz.size + SumSizes(Tail(ws))

Undrained ==
    (IF rd.pc = "copy" THEN rd.pz.size ELSE 0) + SumSizes(pend)
        + (IF wr.pc \in {"copy", "select"} THEN Len(wr.xs) ELSE 0)

\* lines 442-443, the copies out of r.buffer, one byte a step, once the size
\* check of lines 437-440 has passed: each byte of xs is the one the two copies
\* find in the buffer when it is read
ReadByte ==
    /\ ~crashed
    /\ rd.pc = "copy"
    /\ ReadCopy(rg, rd.pz, Zeros(rd.len)).err = ErrNil
    /\ Len(rd.data) < rd.pz.size
    /\ rd' = [rd EXCEPT !.data = Append(@, ReadCopy(rg, rd.pz, Zeros(rd.len)).xs[Len(@) + 1])]
    /\ UNCHANGED <<now, rg, wr, nw, stored, pend, unread, rlast, wres, rres, cres, crashed,
                   dvars, cvars>>

\* a Read that hands the descriptor back to the queue when the caller's buffer is
\* too short
ReadEnd_requeue ==
    /\ ~crashed
    /\ rd.pc = "copy"
    /\ LET c == ReadCopy(rg, rd.pz, Zeros(rd.len))
       IN /\ c.err = ErrNil => Len(rd.data) = rd.pz.size
          /\ rres' = [n |-> c.n, err |-> c.err]
          /\ rlast' = [pz |-> rd.pz, n |-> c.n, err |-> c.err,
                       data |-> rd.data, exp |-> rd.exp,
                       kth |-> Head(unread), at |-> stored, len |-> rd.len,
                       und |-> Undrained, closed |-> rg.closed,
                       prev |-> rlast.prev, k |-> rd.k]
          /\ unread' = IF c.err = ErrNil THEN Tail(unread) ELSE unread
          /\ rg' = IF c.err = ErrNil THEN rg ELSE [rg EXCEPT !.queue = <<rd.pz>> \o @]
    /\ rd' = [rd EXCEPT !.pc = "idle"]
    /\ UNCHANGED <<now, wr, nw, stored, pend, wres, cres, crashed, dvars, cvars>>

\* Read returns: io.ErrShortBuffer from the size check of lines 437-440, or
\* pz.size with the bytes copied (line 445)
ReadEnd ==
    /\ ~crashed
    /\ rd.pc = "copy"
    /\ LET c == ReadCopy(rg, rd.pz, Zeros(rd.len))
       IN /\ c.err = ErrNil => Len(rd.data) = rd.pz.size
          /\ rres' = [n |-> c.n, err |-> c.err]
          /\ rlast' = [pz |-> rd.pz, n |-> c.n, err |-> c.err,
                       data |-> rd.data, exp |-> rd.exp,
                       kth |-> Head(unread), at |-> stored, len |-> rd.len,
                       und |-> Undrained, closed |-> rg.closed,
                       prev |-> rlast.prev, k |-> rd.k]
          /\ unread' = IF c.err = ErrNil THEN Tail(unread) ELSE unread
    /\ rd' = [rd EXCEPT !.pc = "idle"]
    /\ UNCHANGED <<now, rg, wr, nw, stored, pend, wres, cres, crashed, dvars, cvars>>

\* either end calls Close
CloseRing ==
    /\ ~crashed
    /\ Len(cres) < MaxCloses
    /\ LET c == Close(rg)
       IN /\ rg' = c.ring
          /\ cres' = Append(cres, c.err)
    /\ UNCHANGED <<now, wr, rd, nw, stored, pend, unread, rlast, wres, rres, crashed, dvars, cvars>>

NextRing ==
    \/ \E n \in WriteLens : WriteBegin(n)
    \/ WriteByte
    \/ WriteMark
    \/ WriteEnd
    \/ \E n \in ReadLens : ReadBegin(n)
    \/ ReadByte
    \/ ReadEnd
    \/ CloseRing

SpecRing == InitRing /\ [][NextRing]_vars

\* ---------------------------------------------------------------- claims, SpecRing

\* the bytes written after the write w was stored and before the last Read copied
Later(w) == rlast.at - w.end

\* C1, as stated: every successful Read returns the bytes and the size of the
\* oldest accepted Write that no Read has returned yet (the k-th successful Read
\* returns the k-th accepted chunk).
C1_KthReadReturnsKthWrite ==
    rlast.err = ErrNil =>
        /\ rlast.n = rlast.kth.pz.size
        /\ rlast.data = rlast.kth.data

\* C1, amended: the k-th Read that receives a descriptor receives the descriptor of
\* the k-th accepted Write, and the queue holds as many descriptors as Writes
\* were accepted and not yet received; with a buffer long enough the Read returns
\* that write's size, with a shorter one it returns 0 bytes; and the bytes
\* returned are the bytes of the k-th accepted Write call whenever that write's
\* size plus the bytes of the writes begun after it (accepted or rejected) before
\* the Read returns do not exceed the capacity.
C1_FifoDescriptors ==
    /\ Len(rg.queue) = wr.nacc - rd.k
    /\ Len(wr.ids) = wr.nacc
    /\ Len(wr.log) = wr.nacc
    /\ rlast.err # "none" =>
        /\ rlast.k \in 1..wr.nacc
        /\ rlast.exp.seq = rlast.k
        /\ rlast.pz = rlast.exp.pz
        /\ rlast.pz.offset = wr.log[rlast.k].offset
        /\ rlast.pz.size = wr.log[rlast.k].size
        /\ (rlast.err = ErrNil) = (rlast.len >= rlast.pz.size)
        /\ rlast.err = ErrNil => rlast.n = rlast.exp.pz.size
        /\ rlast.err # ErrNil => rlast.n = 0 /\ rlast.err = ErrShortBuffer
        /\ (rlast.err = ErrNil /\ rlast.exp.pz.size + Later(rlast.exp) <= Cap)
               => /\ rlast.data = rlast.exp.data
                  /\ rlast.data = Payload(wr.ids[rlast.k], rlast.n)

\* two accepted chunks are queued behind the first one, whose Read has returned
\* its bytes intact
C1_Witness ==
    /\ rlast.err = ErrNil
    /\ rlast.k = 1
    /\ rlast.data = Payload(wr.ids[1], rlast.n)
    /\ Later(rlast.exp) > 0
    /\ Len(rg.queue) = 2
    /\ rg.queue[1] # rg.queue[2]

\* C3: the writer is never suspended inside Write (its select can always take a
\* step), the queue never holds more than QueueSize descriptors, and a Write that
\* found the queue full returned 0 bytes and the rejection at once, enqueuing nothing.
C3_WriteNeverBlocks ==
    /\ Len(rg.queue) <= QueueSize
    /\ (wr.pc = "select" /\ ~crashed) => ENABLED WriteEnd
    /\ wres.full => wres.n = 0 /\ wres.err = ErrClosed

\* a Write found the queue full and was rejected; the queue is still full
C3_Witness ==
    /\ wr.pc = "idle"
    /\ wres.full /\ wres.err = ErrClosed
    /\ Len(rg.queue) = QueueSize
    /\ ~rg.closed

\* C4, as stated: a Write on a closed ring returns an error and 0 bytes, and the
\* process does not crash.
C4_WriteAfterCloseIsRejected ==
    /\ ~crashed
    /\ wres.closed => wres.n = 0 /\ wres.err = ErrClosed

\* C12: the first Close returns nil and every later Close returns ErrClosed; the
\* queue is closed by the first call, a Close of a closed ring leaves the ring as
\* it is, and no Close makes the process panic (the two ends are the same ring:
\* Ring returns &rg twice).
C12_CloseIsIdempotent ==
    /\ \A k \in 1..Len(cres) : cres[k] = IF k = 1 THEN ErrNil ELSE ErrClosed
    /\ rg.closed = (cres # << >>)
    /\ rg.closed => Close(rg).ring = rg /\ Close(rg).err = ErrClosed
    /\ Close(rg).err \in {ErrNil, ErrClosed}
    /\ ~crashed => (ENABLED CloseRing) = (Len(cres) < MaxCloses)

\* Close has been called twice, with a descriptor still queued: the second call
\* returned ErrClosed
C12_Witness ==
    /\ Len(cres) >= 2
    /\ cres[2] = ErrClosed
    /\ rg.queue # << >>
    /\ ~crashed

\* C13: a Read has returned io.EOF only if the ring is closed and its queue is
\* empty, every accepted chunk having been received by an earlier Read; and once
\* the ring is closed a Read never waits: with the queue empty it returns io.EOF.
C13_EofOnlyWhenClosedAndDrained ==
    /\ rres.err = EOF => rg.closed /\ rg.queue = << >> /\ pend = << >>
    /\ (rg.closed /\ rd.pc = "idle" /\ ~crashed) =>
           /\ ENABLED (\E n \in ReadLens : ReadBegin(n))
           /\ rg.queue = << >> => Read(rg, Zeros(MaxLen)).err = EOF
    /\ (~rg.closed /\ rg.queue = << >>) => ~ENABLED (\E n \in ReadLens : ReadBegin(n))

\* a chunk accepted before Close was read back after it, and the next Read
\* returned io.EOF
C13_Witness ==
    /\ rres.err = EOF
    /\ rlast.err = ErrNil
    /\ rlast.closed
    /\ rlast.data = rlast.exp.data

\* C17: as long as no Write has been rejected, a Read that succeeds while the
\* chunks not yet read back (the one it copies included) hold at most Cap bytes
\* returns the size and the bytes of the chunk written, wherever the chunk lies
\* in the buffer: at the start, at the end, or across the end.
C17_RoundTripAcrossWrap ==
    (rlast.err = ErrNil /\ ~wr.rej /\ rlast.und <= Cap) =>
        /\ rlast.pz = rlast.exp.pz
        /\ rlast.n = Len(rlast.exp.data)
        /\ rlast.data = rlast.exp.data

\* more than Cap bytes have been written, each Write was accepted, and a chunk
\* lying across the end of the buffer has been read back intact
C17_Witness ==
    /\ rlast.err = ErrNil
    /\ ~wr.rej
    /\ wres.err = ErrNil
    /\ rlast.und <= Cap
    /\ rlast.at > Cap
    /\ rlast.exp.pz.offset > 0
    /\ rlast.exp.pz.offset + rlast.exp.pz.size > Cap
    /\ rlast.data = rlast.exp.data

\* C20: a Read whose buffer is shorter than the chunk of the descriptor it
\* received returns 0 bytes and io.ErrShortBuffer, and copies nothing.
C20_ShortBufferIsRejected ==
    /\ (rlast.err # "none" /\ rlast.len < rlast.pz.size) =>
           rlast.n = 0 /\ rlast.err = ErrShortBuffer /\ rlast.data = << >>
    /\ (rd.pc = "copy" /\ rd.len < rd.pz.size) =>
           ReadCopy(rg, rd.pz, Zeros(rd.len)) =
               [n |-> 0, err |-> ErrShortBuffer, xs |-> Zeros(rd.len)]

\* a Read with a 1-byte buffer received the descriptor of a longer chunk
C20_Witness ==
    /\ rlast.err = ErrShortBuffer
    /\ rlast.len = 1
    /\ rlast.pz.size > 1
    /\ rlast.n = 0

\* C21: the queue holds exactly the descriptors of the accepted writes no Read has
\* received, in the order of acceptance; so after a Read that failed with
\* io.ErrShortBuffer the chunk it was about is no longer queued, the descriptor
\* the next Read receives is the one of the accepted write that follows it, and
\* that Read, with a buffer long enough, returns that write's size (and its bytes,
\* unless later writes have overwritten them).
C21_ShortReadDropsChunk ==
    /\ Len(rg.queue) = Len(pend)
    /\ \A k \in 1..Len(pend) :
           /\ rg.queue[k] = pend[k].pz
           /\ pend[k].seq = wr.nacc - Len(pend) + k
    /\ (rlast.err = ErrShortBuffer) =>
           /\ \A k \in 1..Len(pend) : pend[k].seq > rlast.exp.seq
           /\ (rd.pc = "idle" /\ pend # << >>) =>
                  /\ Head(pend).seq = rlast.exp.seq + 1
                  /\ Read(rg, Zeros(MaxLen)).n = Head(pend).pz.size
                  /\ Read(rg, Zeros(MaxLen)).err = ErrNil
    /\ (rlast.prev.err = ErrShortBuffer /\ rd.pc = "copy") =>
           rd.exp.seq = rlast.prev.seq + 1 /\ rd.pz = rd.exp.pz
    /\ (rlast.prev.err = ErrShortBuffer /\ rlast.err # "none") =>
           /\ rlast.exp.seq = rlast.prev.seq + 1
           /\ rlast.pz = rlast.exp.pz
           /\ rlast.len >= rlast.pz.size => rlast.err = ErrNil /\ rlast.n = rlast.exp.pz.size
           /\ (rlast.err = ErrNil /\ rlast.exp.pz.size + Later(rlast.exp) <= Cap)
                  => rlast.data = rlast.exp.data

\* the Read of the first accepted chunk failed with io.ErrShortBuffer, and the
\* next Read, with a buffer long enough, returned the second accepted chunk
C21_Witness ==
    /\ rlast.prev.err = ErrShortBuffer
    /\ rlast.prev.seq = 1
    /\ rlast.err = ErrNil
    /\ rlast.len = MaxLen
    /\ rlast.exp.seq = 2
    /\ rlast.data = rlast.exp.data
    /\ rlast.data # << >>

\* ---------------------------------------------------------------- the recorded gaps
\* SpecGap: one ring, whole calls: Write at a time the caller chooses, and
\* Read, often enough for a Write to be accepted after a rejected one.
MaxGapWrites == QueueSize + 2

\* Write(xs) with len(xs) = n as one call when the clock shows t
GapWrite(n, t) ==
    /\ nw < MaxGapWrites
    /\ LET xs == Payload(nw + 1, n)
           c == WriteCopy(rg, xs, t)
           s == WriteSelect(c.ring, c.pz)
       IN /\ rg' = s.ring
          /\ wr' = [wr EXCEPT !.xs = xs, !.pz = c.pz, !.end = stored + n,
                              !.acc = IF s.err = ErrNil THEN t ELSE wr.acc,
                              !.rej = wr.rej \/ s.err = ErrClosed,
                              !.nacc = IF s.err = ErrNil THEN @ + 1 ELSE @]
          /\ wres' = [n |-> s.n, err |-> s.err,
                      full |-> Len(rg.queue) >= QueueSize, closed |-> rg.closed]
    /\ now' = t
    /\ nw' = nw + 1
    /\ stored' = stored + n
    /\ UNCHANGED <<rd, pend, unread, rlast, rres, cres, crashed, dvars, cvars>>

\* Read(xs) as one call, with a descriptor queued
GapRead ==
    /\ rg.queue # << >>
    /\ LET c == Read(rg, Zeros(MaxLen))
       IN /\ rg' = c.ring
          /\ rres' = [n |-> c.n, err |-> c.err]
    /\ UNCHANGED <<now, wr, rd, nw, stored, pend, unread, rlast, wres, cres, crashed, dvars, cvars>>

NextGap ==
    \/ \E n \in {0, 1, Cap - 1, Cap, MaxLen}, t \in now..MaxTime : GapWrite(n, t)
    \/ GapRead

SpecGap == InitRing /\ [][NextGap]_vars

\* C16: the delay in the descriptor of an accepted Write is the time since the
\* last Write accepted before it, whatever was rejected in between, and the
\* configured delay when it is the first.
C16_ElapsedSinceLastAccepted ==
    [][(nw' = nw + 1 /\ wres'.err = ErrNil) =>
         wr'.pz.elapsed = IF wr.acc = ZeroTime THEN rg.wait ELSE now' - wr.acc]_vars

\* C22, as stated: a Write rejected because the queue is full leaves the ring as
\* it was: the bytes stored, the write cursor and the reference time of the gaps
\* are the same after the call as before it.
C22_RejectedWriteLeavesRing ==
    [][(nw' = nw + 1 /\ wres'.err = ErrClosed) =>
         /\ rg'.buffer = rg.buffer
         /\ rg'.offset = rg.offset
         /\ rg'.when = rg.when]_vars

\* C23, as stated: a Write of s <= Cap bytes starting at the write cursor c leaves
\* the cursor at (c + s) mod Cap, so the cursor and every descriptor's offset are
\* at least 0 and less than Cap.
C23_CursorIsModuloCapacity ==
    [][(nw' = nw + 1) =>
         /\ Len(wr'.xs) <= Cap => rg'.offset = (rg.offset + Len(wr'.xs)) % Cap
         /\ rg'.offset \in 0..(Cap - 1)
         /\ wr'.pz.offset \in 0..(Cap - 1)
         /\ \A k \in 1..Len(rg'.queue) : rg'.queue[k].offset \in 0..(Cap - 1)]_vars

\* C23, amended: a Write of s bytes starting at the write cursor c leaves the
\* cursor at c + s when the chunk fits before the end of the buffer, the end
\* included (so at Cap, not at 0, when it ends exactly there), and at the number
\* of bytes copied from index 0 when it wraps: c + s - Cap for s <= Cap. For
\* s <= Cap the cursor is congruent to c + s modulo Cap, and equal to
\* (c + s) mod Cap unless c + s is a multiple of Cap other than 0. The
\* cursor and every descriptor's offset lie between 0 and Cap, both included;
\* the descriptor of a Write holds the cursor the Write started at.
C23_CursorWithinCapacity ==
    [][(nw' = nw + 1) =>
         LET c == rg.offset
             s == Len(wr'.xs)
         IN /\ c + s <= Cap => rg'.offset = c + s
            /\ (c + s > Cap /\ s <= Cap) => rg'.offset = c + s - Cap
            /\ s <= Cap => rg'.offset % Cap = (c + s) % Cap
            /\ (s <= Cap /\ (c + s) % Cap # 0) => rg'.offset = (c + s) % Cap
            /\ (s <= Cap /\ (c + s) % Cap = 0 /\ c + s > 0) => rg'.offset = Cap
            /\ s > Cap => rg'.offset = Min(Cap, s - (Cap - c))
            /\ rg'.offset \in 0..Cap
            /\ wr'.pz.offset = c
            /\ wr'.pz.size = s
            /\ \A k \in 1..Len(rg'.queue) : rg'.queue[k].offset \in 0..Cap]_vars

\* a Write ended exactly at the end of the buffer and left the cursor at Cap; the
\* next Write was accepted with the offset Cap in its descriptor and its bytes at
\* index 0
C23_Witness ==
    /\ wres.err = ErrNil
    /\ wr.pz.offset = Cap
    /\ wr.pz.size > 0
    /\ rg.offset = wr.pz.size
    /\ rg.queue # << >>
    /\ rg.queue[Len(rg.queue)] = wr.pz
    /\ SubSeq(rg.buffer, 1, wr.pz.size) = wr.xs

\* ---------------------------------------------------------------- interval replay
\* SpecReplay: the ring of ring.go (the relay), whose Read sleeps the recorded
\* gap before it returns. One writer calls Write at times it chooses, up to
\* MaxReplayTime; one reader, the loop of io.CopyBuffer, calls Read and emits the
\* chunk as soon as Read returns. The steps of the goroutines take no time: the
\* clock moves only when none of them is due. rd.t is when the reader called
\* Read, rd.recv when it received the descriptor, rd.wake when its sleep ends.
MaxReplayTime == MaxTime + Wait
MaxReplayClock == 2 * MaxReplayTime

Max(a, b) == IF a > b THEN a ELSE b

Millisecond == 1

\* time.Duration.Truncate(m)
Truncate(d, m) == d - (d % m)

\* WithInterval(w, d), ring.go:18-28
WithInterval(r, w, d) ==
    IF w <= 0 THEN r
    ELSE IF d > 0 THEN [r EXCEPT !.wait = w, !.interval = d]
    ELSE [r EXCEPT !.wait = w]

\* Ring(size, WithInterval(w, d)), ring.go:49-60
ReplayRing(size, w, d) ==
    WithInterval([buffer |-> Zeros(size), queue |-> << >>, closed |-> FALSE,
                  offset |-> 0, when |-> ZeroTime, wait |-> 0, interval |-> 0], w, d)

\* ring.Write of ring.go:67-84, what it has done when it reaches the send, the
\* clock showing t
ReplayWriteCopy(r, xs, t) ==
    LET r1 == WriteBuffer(r, xs)
        pz == [size |-> Len(xs), offset |-> r.offset,
               elapsed |-> IF r.wait > 0 /\ r.when # ZeroTime
                           THEN Truncate(t - r.when, Millisecond) ELSE r.wait]
    IN [ring |-> IF r.wait > 0 THEN [r1 EXCEPT !.when = t] ELSE r1, pz |-> pz]

\* the time ring.Read of ring.go:102-108 sleeps for the descriptor pz
ReplaySleep(r, pz) ==
    IF r.wait > 0 THEN (IF r.interval > 0 THEN r.interval ELSE pz.elapsed) ELSE 0

InitReplay ==
    /\ CountIdle
    /\ now = 1
    /\ crashed = FALSE
    /\ rg = ReplayRing(Cap, Wait, 0)
    /\ wr = [pc |-> "idle", xs |-> << >>, pz |-> NoPz, end |-> 0, acc |-> ZeroTime, rej |-> FALSE,
             off |-> 0, i |-> 0]
    /\ rd = [pc |-> "idle", pz |-> NoPz, t |-> 1, recv |-> 0, k |-> 0, wake |-> 0,
             data |-> << >>]
    /\ nw = 0
    /\ stored = 0
    /\ pend = << >>
    /\ unread = << >>
    /\ rlast = [k |-> 0, emit |-> 0, prev |-> 0, pz |-> NoPz, waited |-> FALSE]
    /\ wres = NoResult
    /\ rres = [n |-> 0, err |-> "none"]
    /\ cres = << >>
    /\ cfg = [proto |-> "udp", forever |-> FALSE]
    /\ routes = [i \in RouteIds |-> [delay |-> Wait, proto |-> "udp", tls |-> FALSE, buffer |-> Cap]]
    /\ ProcessIdle

\* the number of bytes the two copies of ring.go:69-70 (and of ring.go:99-100)
\* move for a chunk of the given size at the given offset
ReplayCopied(r, off, size) == CopyCount(r.buffer, off, size)

\* the index in r.buffer (from 1) of byte j of a chunk stored at the offset off
ReplayPos(r, off, j) ==
    IF off + j <= Len(r.buffer) THEN off + j ELSE off + j - Len(r.buffer)

\* the writer enters Write(xs) with len(xs) = n: ring.go:67, offset and size are
\* read; the queue is not looked at
ReplayWriteBegin(n) ==
    /\ wr.pc = "idle"
    /\ nw < MaxWrites
    /\ now <= MaxReplayTime
    /\ wr' = [wr EXCEPT !.pc = "copy", !.xs = Payload(nw + 1, n), !.off = rg.offset,
                        !.i = 0, !.end = stored + n]
    /\ nw' = nw + 1
    /\ stored' = stored + n
    /\ UNCHANGED <<now, rg, rd, pend, unread, rlast, wres, rres, cres, crashed, dvars, cvars>>

\* ring.go:69-70, the copies into r.buffer, one byte a step: nothing orders
\* them with the copies of Read (ring.go:99-100), which may see any part of them
ReplayWriteByte ==
    /\ wr.pc = "copy"
    /\ wr.i < ReplayCopied(rg, wr.off, Len(wr.xs))
    /\ rg' = [rg EXCEPT !.buffer[ReplayPos(rg, wr.off, wr.i + 1)] = wr.xs[wr.i + 1]]
    /\ wr' = [wr EXCEPT !.i = wr.i + 1]
    /\ UNCHANGED <<now, rd, nw, stored, pend, unread, rlast, wres, rres, cres, crashed,
                   dvars, cvars>>

\* ring.go:70-84: r.offset moves, the descriptor is made and r.when is set,
\* whether the queue has room or not
ReplayWriteMark ==
    /\ wr.pc = "copy"
    /\ wr.i = ReplayCopied(rg, wr.off, Len(wr.xs))
    /\ LET c == ReplayWriteCopy([rg EXCEPT !.offset = wr.off], wr.xs, now)
       IN /\ rg' = [rg EXCEPT !.offset = c.ring.offset, !.when = c.ring.when]
          /\ wr' = [wr EXCEPT !.pc = "send", !.pz = c.pz]
    /\ UNCHANGED <<now, rd, nw, stored, pend, unread, rlast, wres, rres, cres, crashed,
                   dvars, cvars>>

\* ring.go:85-86: the send r.queue <- pz waits while the queue is full; then
\* Write returns
ReplayWriteSend ==
    /\ wr.pc = "send"
    /\ Len(rg.queue) < QueueSize
    /\ rg' = [rg EXCEPT !.queue = Append(@, wr.pz)]
    /\ pend' = Append(pend, [data |-> wr.xs, pz |-> wr.pz, t |-> now])
    /\ wr' = [wr EXCEPT !.pc = "idle"]
    /\ wres' = [n |-> wr.pz.size, err |-> ErrNil, full |-> FALSE, closed |-> FALSE]
    /\ UNCHANGED <<now, rd, nw, stored, unread, rlast, rres, cres, crashed, dvars, cvars>>

\* the reader receives a descriptor (ring.go:90-97): a slot of the queue is
\* free from here on; the caller's buffer, the one of io.CopyBuffer, is never
\* shorter than a chunk
ReplayReceive ==
    /\ rd.pc = "idle"
    /\ rg.queue # << >>
    /\ rd' = [rd EXCEPT !.pc = "copy", !.pz = Head(rg.queue), !.recv = now,
                        !.k = rd.k + 1, !.data = << >>]
    /\ rg' = [rg EXCEPT !.queue = Tail(rg.queue)]
    /\ pend' = Tail(pend)
    /\ UNCHANGED <<now, wr, nw, stored, unread, rlast, wres, rres, cres, crashed, dvars, cvars>>

\* ring.go:99-100, the copies out of r.buffer, one byte a step: each byte is
\* the one the buffer holds when it is read
ReplayReadByte ==
    /\ rd.pc = "copy"
    /\ Len(rd.data) < ReplayCopied(rg, rd.pz.offset, rd.pz.size)
    /\ rd' = [rd EXCEPT !.data = Append(@, rg.buffer[ReplayPos(rg, rd.pz.offset, Len(@) + 1)])]
    /\ UNCHANGED <<now, rg, wr, nw, stored, pend, unread, rlast, wres, rres, cres, crashed,
                   dvars, cvars>>

\* ring.go:102-108: the copy is done and the sleep starts
ReplayReadSleep ==
    /\ rd.pc = "copy"
    /\ Len(rd.data) = ReplayCopied(rg, rd.pz.offset, rd.pz.size)
    /\ rd' = [rd EXCEPT !.pc = "sleep", !.wake = now + ReplaySleep(rg, rd.pz)]
    /\ UNCHANGED <<now, rg, wr, nw, stored, pend, unread, rlast, wres, rres, cres, crashed,
                   dvars, cvars>>

\* the sleep is over (ring.go:107-109), Read returns and io.CopyBuffer writes
\* the chunk out, then calls Read again
ReplayEmit ==
    /\ rd.pc = "sleep"
    /\ now >= rd.wake
    /\ rlast' = [k |-> rd.k, emit |-> now, prev |-> rlast.emit, pz |-> rd.pz,
                 waited |-> rd.recv > rd.t]
    /\ rres' = [n |-> rd.pz.size, err |-> ErrNil]
    /\ rd' = [rd EXCEPT !.pc = "idle", !.t = now]
    /\ UNCHANGED <<now, rg, wr, nw, stored, pend, unread, wres, cres, crashed, dvars, cvars>>

\* a step that takes no time is due: the copies of either side, the send when
\* the queue has room, the receive when a descriptor is queued, the return of
\* Read when its sleep is over
ReplayDue ==
    \/ wr.pc = "copy"
    \/ wr.pc = "send" /\ Len(rg.queue) < QueueSize
    \/ rd.pc = "idle" /\ rg.queue # << >>
    \/ rd.pc = "copy"
    \/ rd.pc = "sleep" /\ now >= rd.wake

\* time passes (time.Now of ring.go:81-83, time.Sleep of ring.go:107) while no
\* goroutine has a step due
ReplayTick ==
    /\ now < MaxReplayClock
    /\ ~ReplayDue
    /\ now' = now + 1
    /\ UNCHANGED <<rvars, crashed, dvars, cvars>>

NextReplay ==
    \/ \E n \in {1, Cap - 1} : ReplayWriteBegin(n)
    \/ ReplayWriteByte
    \/ ReplayWriteMark
    \/ ReplayWriteSend
    \/ ReplayReceive
    \/ ReplayReadByte
    \/ ReplayReadSleep
    \/ ReplayEmit
    \/ ReplayTick

SpecReplay == InitReplay /\ [][NextReplay]_vars

\* C15: from the second chunk on, the time between the emission of a chunk and
\* the emission of the chunk before it is the gap recorded in its descriptor,
\* also when the reader had to wait for the chunk to be written.
C15_ReplayKeepsRecordedGaps ==
    rlast.k >= 2 => rlast.emit - rlast.prev = rlast.pz.elapsed

\* ---------------------------------------------------------------- the process: main
\* the process runs: it has neither exited nor panicked
Alive == ~crashed /\ mpc \in {"setup", "listen", "wait"}

\* the drain loop without the type assertion: every error ends it
IsTCPConn_always(r) == TRUE

\* w.(*net.TCPConn) at main.go:310: true of a plain TCP connection only; with a
\* certificate configured w is the *tls.Conn that Certificate.Client returned
IsTCPConn(r) == r.proto = "tcp" /\ ~r.tls

\* errgroup.Group: the first non-nil error returned is the one Wait returns
GroupErr(e) == IF gerr = ErrNil THEN e ELSE gerr

\* main's route loop without its else branch: every route gets a ring
NewSink_ring(r) ==
    [kind |-> "ring", ring |-> Ring(r.buffer, r.delay), rclosed |-> FALSE, wclosed |-> FALSE]

\* main.go:194-213: the sink of route r, a ring when r.delay > 0 and an io.Pipe otherwise
NewSink(r) ==
    IF r.delay > 0
    THEN [kind |-> "ring", ring |-> Ring(r.buffer, r.delay), rclosed |-> FALSE, wclosed |-> FALSE]
    ELSE [kind |-> "pipe", ring |-> NoRing, rclosed |-> FALSE, wclosed |-> FALSE]

\* the next route main's loop handles
NextRoute == CHOOSE i \in RouteIds : sinks[i].kind = "none" /\ \A j \in RouteIds : j < i => sinks[j].kind # "none"

\* main.go:194-213, one iteration: the sink, Duplicate (the dial succeeds or not),
\* grp.Go(fn); a dial error ends the process with status 2
MainStartRoute(ok) ==
    /\ Alive
    /\ mpc = "setup"
    /\ LET i == NextRoute
       IN /\ sinks' = [sinks EXCEPT ![i] = NewSink(routes[i])]
          /\ IF ok
             THEN /\ wk' = [wk EXCEPT ![i].pc = IF routes[i].delay > 0 THEN "sleep" ELSE "read",
                                      ![i].wake = now + routes[i].delay]
                  /\ mpc' = IF \A j \in RouteIds : j # i => sinks[j].kind # "none"
                            THEN "listen" ELSE "setup"
             ELSE /\ mpc' = "exit2"
                  /\ UNCHANGED wk
    /\ UNCHANGED <<now, rvars, cvars, crashed, cfg, routes, ls, gerr, nin, nconn, offered>>

\* main.go:215-231: listenUDP or listenTCP (the socket is bound or not), grp.Go(fn)
MainListen(ok) ==
    /\ Alive
    /\ mpc = "listen"
    /\ IF ok
       THEN /\ ls' = [ls EXCEPT !.pc = IF cfg.proto = "tcp" THEN "accept" ELSE "recv"]
            /\ mpc' = "wait"
       ELSE /\ mpc' = "exit2"
            /\ UNCHANGED ls
    /\ UNCHANGED <<now, rvars, cvars, crashed, cfg, routes, sinks, wk, gerr, nin, nconn, offered>>

\* main.go:233-237: grp.Wait returns when every task has returned; the deferred
\* wg.Close() of the pipes run when main returns
MainWait ==
    /\ Alive
    /\ mpc = "wait"
    /\ ls.pc = "done"
    /\ \A i \in RouteIds : wk[i].pc = "done"
    /\ IF gerr # ErrNil
       THEN /\ mpc' = "exit3"
            /\ UNCHANGED sinks
       ELSE /\ mpc' = "exit0"
            /\ sinks' = [i \in RouteIds |->
                           IF sinks[i].kind = "pipe" THEN [sinks[i] EXCEPT !.wclosed = TRUE]
                           ELSE sinks[i]]
    /\ UNCHANGED <<now, rvars, cvars, crashed, cfg, routes, wk, ls, gerr, nin, nconn, offered>>

\* ---------------------------------------------------------------- the process: listener
\* io.MultiWriter.Write after the Write of sink i returned err: the first error
\* ends the loop and io.Copy with it; after the last sink io.Copy reads on
MultiWriter(l, i, err) ==
    IF err # ErrNil THEN [l EXCEPT !.pc = "check", !.cerr = err, !.data = << >>, !.idx = 0]
    ELSE IF i < NRoutes THEN [l EXCEPT !.idx = i + 1]
    ELSE [l EXCEPT !.pc = "recv", !.data = << >>, !.idx = 0]

\* main.go:268-274: Accept returns a connection, or an error that ends the task
ListenerAccept(ok) ==
    /\ Alive
    /\ ls.pc = "accept"
    /\ nconn < MaxConns
    /\ IF ok
       THEN /\ ls' = [ls EXCEPT !.pc = "recv"]
            /\ nconn' = nconn + 1
            /\ UNCHANGED gerr
       ELSE /\ ls' = [ls EXCEPT !.pc = "done", !.ret = ErrAccept]
            /\ gerr' = GroupErr(ErrAccept)
            /\ UNCHANGED nconn
    /\ UNCHANGED <<now, rvars, cvars, crashed, cfg, routes, sinks, mpc, wk, nin, offered>>

\* io.Copy(w, r) at main.go:247 and 275: a chunk of n bytes is read from the
\* inbound connection and handed to the MultiWriter
ListenerRead(n) ==
    /\ Alive
    /\ ls.pc = "recv"
    /\ nin < MaxIn
    /\ ls' = [ls EXCEPT !.pc = "fanout", !.idx = 1, !.data = Payload(nin + 1, n)]
    /\ nin' = nin + 1
    /\ UNCHANGED <<now, rvars, cvars, crashed, cfg, routes, sinks, mpc, wk, gerr, nconn, offered>>

\* io.Copy(w, r) at main.go:275: the peer ends the TCP stream, io.Copy returns nil
ListenerReadEOF ==
    /\ Alive
    /\ ls.pc = "recv"
    /\ cfg.proto = "tcp"
    /\ ls' = [ls EXCEPT !.pc = "check", !.cerr = ErrNil]
    /\ UNCHANGED <<now, rvars, cvars, crashed, cfg, routes, sinks, mpc, wk, gerr, nin, nconn, offered>>

\* the MultiWriter writes the chunk to the sink of route ls.idx, a ring:
\* ring.Write, when the clock shows t
ListenerWriteRing(t) ==
    /\ Alive
    /\ ls.pc = "fanout"
    /\ sinks[ls.idx].kind = "ring"
    /\ now' = t
    /\ LET i == ls.idx
           w == Write(sinks[i].ring, ls.data, t)
       IN /\ sinks' = [sinks EXCEPT ![i].ring = w.ring]
          /\ crashed' = (w.err = Panic)
          /\ ls' = IF w.err = Panic THEN ls ELSE MultiWriter(ls, i, w.err)
          /\ wk' = IF w.err = ErrNil THEN [wk EXCEPT ![i].acc = Append(@, t)] ELSE wk
          /\ offered' = [offered EXCEPT ![i] = nin]
    /\ UNCHANGED <<rvars, cvars, cfg, routes, mpc, gerr, nin, nconn>>

\* the MultiWriter writes the chunk to the sink of route ls.idx, an io.Pipe:
\* PipeWriter.Write returns once the worker's Read has taken the bytes, so it
\* proceeds only while the worker is inside PipeReader.Read
ListenerWritePipe ==
    /\ Alive
    /\ ls.pc = "fanout"
    /\ sinks[ls.idx].kind = "pipe"
    /\ ~sinks[ls.idx].rclosed
    /\ wk[ls.idx].pc = "read"
    /\ LET i == ls.idx
       IN /\ wk' = [wk EXCEPT ![i].pc = "write", ![i].data = ls.data]
          /\ ls' = MultiWriter(ls, i, ErrNil)
          /\ offered' = [offered EXCEPT ![i] = nin]
    /\ UNCHANGED <<now, rvars, cvars, crashed, cfg, routes, sinks, mpc, gerr, nin, nconn>>

\* ... and with the read end closed (the worker has returned) PipeWriter.Write
\* returns io.ErrClosedPipe
ListenerWritePipeClosed ==
    /\ Alive
    /\ ls.pc = "fanout"
    /\ sinks[ls.idx].kind = "pipe"
    /\ sinks[ls.idx].rclosed
    /\ LET i == ls.idx
       IN /\ ls' = MultiWriter(ls, i, ErrClosedPipe)
          /\ offered' = [offered EXCEPT ![i] = nin]
    /\ UNCHANGED <<now, rvars, cvars, crashed, cfg, routes, sinks, mpc, wk, gerr, nin, nconn>>

\* io.Copy has returned ls.cerr.
\* listenUDP, main.go:246-252: the loop ends only on an error that is io.EOF.
\* listenTCP, main.go:275-281: the result is dropped, the connection is closed, and
\* the loop ends unless keep-listen is set.
ListenerCheck ==
    /\ Alive
    /\ ls.pc = "check"
    /\ ls' = IF cfg.proto = "udp"
             THEN IF ls.cerr = EOF THEN [ls EXCEPT !.pc = "done", !.ret = ErrNil, !.cerr = ErrNil]
                  ELSE [ls EXCEPT !.pc = "recv", !.cerr = ErrNil]
             ELSE IF ~cfg.forever THEN [ls EXCEPT !.pc = "done", !.ret = ErrNil, !.cerr = ErrNil]
                  ELSE [ls EXCEPT !.pc = "accept", !.cerr = ErrNil]
    /\ UNCHANGED <<now, rvars, cvars, crashed, cfg, routes, sinks, mpc, wk, gerr, nin, nconn, offered>>

\* ---------------------------------------------------------------- the process: workers
\* main.go:304-307: time.Sleep(delay) is over (the clock shows MaxTime at
\* MaxTime and at any later time)
WorkerWake(i) ==
    /\ Alive
    /\ wk[i].pc = "sleep"
    /\ now' = IF now >= wk[i].wake THEN now ELSE Min(wk[i].wake, MaxTime)
    /\ wk' = [wk EXCEPT ![i].pc = "read", ![i].wake = 0]
    /\ UNCHANGED <<rvars, cvars, crashed, cfg, routes, sinks, mpc, ls, gerr, nin, nconn, offered>>

\* io.Copy(w, rc) at main.go:309, rc a ring: ring.Read into io.Copy's buffer. On
\* io.EOF io.Copy returns nil, on another error it returns the error, with bytes
\* read it goes on to write them, with none it reads again.
WorkerRead(i) ==
    /\ Alive
    /\ wk[i].pc = "read"
    /\ sinks[i].kind = "ring"
    /\ CanReceive(sinks[i].ring)
    /\ LET c == Read(sinks[i].ring, Zeros(CopyBufferSize))
       IN /\ sinks' = [sinks EXCEPT ![i].ring = c.ring]
          /\ wk' = IF c.err = EOF THEN [wk EXCEPT ![i].pc = "check", ![i].cerr = ErrNil]
                   ELSE IF c.err # ErrNil
                   THEN [wk EXCEPT ![i].pc = "check", ![i].cerr = c.err, ![i].acc = Tail(@)]
                   ELSE IF c.n > 0
                   THEN [wk EXCEPT ![i].pc = "write", ![i].data = SubSeq(c.xs, 1, c.n),
                                   ![i].cur = Head(wk[i].acc), ![i].acc = Tail(@)]
                   ELSE [wk EXCEPT ![i].acc = Tail(@)]
    /\ UNCHANGED <<now, rvars, cvars, crashed, cfg, routes, mpc, ls, gerr, nin, nconn, offered>>

\* io.Copy(w, rc), rc an io.Pipe whose write end is closed: PipeReader.Read returns
\* io.EOF, on which io.Copy returns nil
WorkerPipeEOF(i) ==
    /\ Alive
    /\ wk[i].pc = "read"
    /\ sinks[i].kind = "pipe"
    /\ sinks[i].wclosed
    /\ wk' = [wk EXCEPT ![i].pc = "check", ![i].cerr = ErrNil]
    /\ UNCHANGED <<now, rvars, cvars, crashed, cfg, routes, sinks, mpc, ls, gerr, nin, nconn, offered>>

\* the errors the Write of route r's outbound connection can return: a tls.Conn
\* also returns the error of its handshake, which is io.EOF when the peer hangs up
WriteErrors(r) == IF r.tls THEN {ErrWrite, EOF} ELSE {ErrWrite}

\* io.Copy writes the chunk to the outbound connection: w.Write returns nil, or an
\* error on which io.Copy returns it
WorkerWrite(i, err) ==
    /\ Alive
    /\ wk[i].pc = "write"
    /\ err \in {ErrNil} \cup WriteErrors(routes[i])
    /\ wk' = IF err = ErrNil THEN [wk EXCEPT ![i].pc = "read", ![i].data = << >>, ![i].cur = 0]
             ELSE [wk EXCEPT ![i].pc = "check", ![i].cerr = err, ![i].data = << >>, ![i].cur = 0]
    /\ UNCHANGED <<now, rvars, cvars, crashed, cfg, routes, sinks, mpc, ls, gerr, nin, nconn, offered>>

\* the deferred rc.Close() of main.go:300-303 on the sink of a worker
CloseReader(s) ==
    IF s.kind = "ring" THEN [s EXCEPT !.ring = Close(s.ring).ring, !.rclosed = TRUE]
    ELSE [s EXCEPT !.rclosed = TRUE]

\* main.go:310-316 with err what io.Copy returned: "return" with the error the
\* worker returns, "break" (the worker returns nil), or "loop"
DrainNext(r, err) ==
    IF IsTCPConn(r) /\ err # ErrNil THEN [do |-> "return", err |-> err]
    ELSE IF err = EOF THEN [do |-> "break", err |-> ErrNil]
    ELSE [do |-> "loop", err |-> ErrNil]

\* main.go:310-317, io.Copy has returned wk[i].cerr: the worker copies again, or
\* leaves the loop with the value it is going to return
WorkerCheck(i) ==
    /\ Alive
    /\ wk[i].pc = "check"
    /\ LET d == DrainNext(routes[i], wk[i].cerr)
       IN IF d.do = "loop"
          THEN wk' = [wk EXCEPT ![i].pc = "read", ![i].cerr = ErrNil]
          ELSE wk' = [wk EXCEPT ![i].pc = "defer", ![i].ret = d.err, ![i].cerr = ErrNil]
    /\ UNCHANGED <<now, rvars, cvars, crashed, cfg, routes, sinks, mpc, ls, gerr, nin, nconn,
                   offered>>

\* main.go:300-303, the deferred function: rc.Close() closes the sink, w.Close()
\* the outbound connection
WorkerDefer(i) ==
    /\ Alive
    /\ wk[i].pc = "defer"
    /\ wk' = [wk EXCEPT ![i].pc = "return"]
    /\ sinks' = [sinks EXCEPT ![i] = CloseReader(sinks[i])]
    /\ UNCHANGED <<now, rvars, cvars, crashed, cfg, routes, mpc, ls, gerr, nin, nconn, offered>>

\* the closure has returned wk[i].ret to errgroup (grp.Go at main.go:212), which
\* keeps the first error and counts the task as done
WorkerReturn(i) ==
    /\ Alive
    /\ wk[i].pc = "return"
    /\ wk' = [wk EXCEPT ![i].pc = "done"]
    /\ gerr' = GroupErr(wk[i].ret)
    /\ UNCHANGED <<now, rvars, cvars, crashed, cfg, routes, sinks, mpc, ls, nin, nconn, offered>>

\* ---------------------------------------------------------------- the process: Spec
Init ==
    /\ CountIdle
    /\ now = 1
    /\ crashed = FALSE
    /\ RingIdle
    /\ cfg \in ListenKinds
    /\ routes \in [RouteIds -> RouteKinds]
    /\ ProcessIdle

Next ==
    \/ \E ok \in BOOLEAN : MainStartRoute(ok)
    \/ \E ok \in BOOLEAN : MainListen(ok)
    \/ MainWait
    \/ \E ok \in BOOLEAN : ListenerAccept(ok)
    \/ \E n \in InLens : ListenerRead(n)
    \/ ListenerReadEOF
    \/ \E t \in now..MaxTime : ListenerWriteRing(t)
    \/ ListenerWritePipe
    \/ ListenerWritePipeClosed
    \/ ListenerCheck
    \/ \E i \in RouteIds : WorkerWake(i)
    \/ \E i \in RouteIds : WorkerRead(i)
    \/ \E i \in RouteIds, err \in {ErrNil, ErrWrite, EOF} : WorkerWrite(i, err)
    \/ \E i \in RouteIds : WorkerCheck(i)
    \/ \E i \in RouteIds : WorkerDefer(i)
    \/ \E i \in RouteIds : WorkerReturn(i)

Spec == Init /\ [][Next]_vars

\* the steps of the listener that do not wait for the inbound peer
ListenerStep ==
    \/ \E t \in now..MaxTime : ListenerWriteRing(t)
    \/ ListenerWritePipe
    \/ ListenerWritePipeClosed
    \/ ListenerCheck

\* the steps of the worker of route i
WorkerStep(i) ==
    \/ WorkerWake(i)
    \/ WorkerRead(i)
    \/ \E err \in {ErrNil, ErrWrite, EOF} : WorkerWrite(i, err)
    \/ WorkerCheck(i)
    \/ WorkerDefer(i)
    \/ WorkerReturn(i)

\* the Go scheduler runs every goroutine that can run; nothing obliges the
\* inbound peer to send, to connect or to hang up
FairSpec ==
    /\ Spec
    /\ WF_vars(\E ok \in BOOLEAN : MainStartRoute(ok))
    /\ WF_vars(\E ok \in BOOLEAN : MainListen(ok))
    /\ WF_vars(MainWait)
    /\ WF_vars(ListenerStep)
    /\ \A i \in RouteIds : WF_vars(WorkerStep(i))

\* ---------------------------------------------------------------- the process: claims
\* the write end or the read end of the sink has been closed
SinkClosed(s) == IF s.kind = "ring" THEN s.ring.closed ELSE s.rclosed \/ s.wclosed

\* C2: when the fan-out of an inbound chunk has ended on a sink rejecting it
\* (ring.Write returned ErrClosed), the chunk has been written to the sink of
\* every route, wherever the rejecting route stands in the list.
C2_RejectionDoesNotAbortFanout ==
    (Alive /\ ls.pc = "check" /\ ls.cerr = ErrClosed) =>
        \A i \in RouteIds : offered[i] = nin

\* C5: while the worker of a route is not reading (it sleeps its delay or it is
\* in an outbound write), the fan-out write to the sink of that route can
\* complete at once, be the sink a ring or a pipe.
C5_FanoutNeverBlocksOnIdleWorker ==
    (Alive /\ ls.pc = "fanout" /\ wk[ls.idx].pc \in {"sleep", "write"}) =>
        ENABLED ListenerStep

\* C6: once io.Copy has returned a rejection of a sink (ErrClosed), the listener
\* goes back to receiving from the same inbound connection: it neither closes
\* the connection nor returns.
C6_RejectionKeepsInboundStream ==
    [][(Alive /\ ls.pc = "check" /\ ls.cerr = ErrClosed) => ls'.pc \in {"check", "recv"}]_vars

\* C7: once the listener has returned without error in a process that has not
\* panicked, eventually every sink is closed, every worker has returned, and
\* Wait has returned, without error unless a worker has failed.
C7_InboundEndStopsDispatcher ==
    (ls.pc = "done" /\ ls.ret = ErrNil /\ ~crashed) ~>
        /\ \A i \in RouteIds : SinkClosed(sinks[i]) /\ wk[i].pc = "done"
        /\ mpc = "exit0" \/ (mpc = "exit3" /\ gerr # ErrNil)

\* C9: once a worker has returned an error, eventually Wait returns an error
\* and the process exits with status 3 (or it has died of a panic before).
C9_WorkerFailureStopsDispatcher ==
    (\E i \in RouteIds : wk[i].pc = "done" /\ wk[i].ret # ErrNil) ~>
        (mpc = "exit3" \/ crashed)

\* C10: on a route whose protocol is TCP, with or without a certificate, when
\* io.Copy has returned the error of an outbound write the worker's next step is
\* to return that error.
C10_TcpWriteErrorIsFatal ==
    [][\A i \in RouteIds :
         (Alive /\ routes[i].proto = "tcp" /\ wk[i].pc = "check" /\ wk[i].cerr \in {ErrWrite, EOF}) =>
             \/ wk'[i] = wk[i]
             \/ wk'[i].pc = "defer" /\ wk'[i].ret = wk[i].cerr]_vars

\* C11: on a UDP route, when io.Copy has returned the error of an outbound
\* write the worker copies again: it never returns, it never hands an error to
\* errgroup, and it never closes its sink, so that its sink never makes the
\* fan-out fail for the other routes.
C11_UdpWriteErrorIsTransient ==
    \A i \in RouteIds :
        routes[i].proto = "udp" =>
            /\ wk[i].pc \notin {"defer", "return", "done"}
            /\ wk[i].ret = ErrNil
            /\ ~sinks[i].rclosed
            /\ (sinks[i].kind = "ring" => ~sinks[i].ring.closed)
            /\ (wk[i].pc = "check" /\ wk[i].cerr = ErrWrite) =>
                   /\ DrainNext(routes[i], wk[i].cerr).do = "loop"
                   /\ Alive => ENABLED WorkerCheck(i)
            /\ (\A j \in RouteIds : routes[j].proto = "udp") => gerr \in {ErrNil, ErrAccept}

\* the outbound write of a UDP route has failed while a later chunk waits in its
\* ring, and the listener goes on feeding the other route
C11_Witness ==
    \E i \in RouteIds :
        /\ Alive
        /\ routes[i].proto = "udp"
        /\ wk[i].pc = "check" /\ wk[i].cerr = ErrWrite
        /\ sinks[i].kind = "ring" /\ sinks[i].ring.queue # << >>
        /\ \E j \in RouteIds : j # i /\ ls.pc = "fanout" /\ ls.idx = j

\* C18: a started route has a ring as its sink exactly when its delay is > 0 and
\* an io.Pipe otherwise; the worker of a route without delay never sleeps, and
\* with a chunk in hand it can write it at once.
C18_SinkKindFollowsDelay ==
    \A i \in RouteIds :
        sinks[i].kind # "none" =>
            /\ (sinks[i].kind = "ring") = (routes[i].delay > 0)
            /\ (sinks[i].kind = "pipe") = (routes[i].delay <= 0)
            /\ routes[i].delay <= 0 =>
                   /\ wk[i].pc # "sleep"
                   /\ wk[i].wake <= now
                   /\ (Alive /\ wk[i].pc = "write") => ENABLED WorkerWrite(i, ErrNil)

\* a route without delay and a route with one have been started, and the worker
\* of the first holds the chunk the listener has just passed through its pipe
C18_Witness ==
    \E i, j \in RouteIds :
        /\ routes[i].delay = 0 /\ sinks[i].kind = "pipe"
        /\ routes[j].delay > 0 /\ sinks[j].kind = "ring"
        /\ wk[i].pc = "write" /\ wk[i].data = Payload(nin, 1)

\* C19: the process has ended (main has returned from Wait, or has called
\* os.Exit) only when every worker that was started has returned.
C19_NoExitWhileWorkerRuns ==
    mpc \in {"exit0", "exit2", "exit3"} =>
        \A i \in RouteIds : wk[i].pc \in {"init", "done"}

\* C14: on a route with delay d > 0, a chunk is written to the outbound
\* connection no earlier than d after the Write that queued it was accepted.
C14_EmittedNoEarlierThanDelay ==
    [][\A i \in RouteIds :
         (routes[i].delay > 0 /\ wk[i].pc = "write" /\ wk'[i].pc # "write") =>
             now >= wk[i].cur + routes[i].delay]_vars

\* ---------------------------------------------------------------- the workers alone
\* SpecWorker: the closures Duplicate returns, each on a sink of its own that a
\* caller writes to and closes (Duplicate takes the read end as an argument).
InitWorker ==
    /\ CountIdle
    /\ now = 1
    /\ crashed = FALSE
    /\ RingIdle
    /\ cfg = [proto |-> "udp", forever |-> FALSE]
    /\ routes \in [RouteIds -> RouteKinds]
    /\ sinks = [i \in RouteIds |-> NewSink(routes[i])]
    /\ mpc = "wait"
    /\ wk = [i \in RouteIds |->
               [NoWorker EXCEPT !.pc = IF routes[i].delay > 0 THEN "sleep" ELSE "read",
                                !.wake = now + routes[i].delay]]
    /\ ls = NoListener
    /\ gerr = ErrNil
    /\ nin = 0
    /\ nconn = 0
    /\ offered = [i \in RouteIds |-> 0]

\* the caller writes a chunk to the ring of route i when the clock shows t
CallerWriteRing(i, t) ==
    /\ Alive
    /\ sinks[i].kind = "ring"
    /\ ~sinks[i].ring.closed
    /\ nin < MaxIn
    /\ now' = t
    /\ nin' = nin + 1
    /\ LET w == Write(sinks[i].ring, Payload(nin + 1, 1), t)
       IN /\ sinks' = [sinks EXCEPT ![i].ring = w.ring]
          /\ wk' = IF w.err = ErrNil THEN [wk EXCEPT ![i].acc = Append(@, t)] ELSE wk
    /\ offered' = [offered EXCEPT ![i] = nin + 1]
    /\ UNCHANGED <<rvars, cvars, crashed, cfg, routes, mpc, ls, gerr, nconn>>

\* the caller writes a chunk to the pipe of route i: the worker's Read takes it
CallerWritePipe(i) ==
    /\ Alive
    /\ sinks[i].kind = "pipe"
    /\ ~sinks[i].rclosed
    /\ ~sinks[i].wclosed
    /\ wk[i].pc = "read"
    /\ nin < MaxIn
    /\ nin' = nin + 1
    /\ wk' = [wk EXCEPT ![i].pc = "write", ![i].data = Payload(nin + 1, 1)]
    /\ offered' = [offered EXCEPT ![i] = nin + 1]
    /\ UNCHANGED <<now, rvars, cvars, crashed, cfg, routes, sinks, mpc, ls, gerr, nconn>>

\* the caller closes the write end of the sink of route i: ring.Close, or
\* PipeWriter.Close
CallerClose(i) ==
    /\ Alive
    /\ ~SinkClosed(sinks[i])
    /\ sinks' = [sinks EXCEPT ![i] =
                   IF sinks[i].kind = "ring"
                   THEN [sinks[i] EXCEPT !.ring = Close(sinks[i].ring).ring]
                   ELSE [sinks[i] EXCEPT !.wclosed = TRUE]]
    /\ UNCHANGED <<now, rvars, cvars, crashed, cfg, routes, mpc, wk, ls, gerr, nin, nconn, offered>>

NextWorker ==
    \/ \E i \in RouteIds, t \in now..MaxTime : CallerWriteRing(i, t)
    \/ \E i \in RouteIds : CallerWritePipe(i)
    \/ \E i \in RouteIds : CallerClose(i)
    \/ \E i \in RouteIds : WorkerWake(i)
    \/ \E i \in RouteIds : WorkerRead(i)
    \/ \E i \in RouteIds : WorkerPipeEOF(i)
    \/ \E i \in RouteIds, err \in {ErrNil, ErrWrite, EOF} : WorkerWrite(i, err)
    \/ \E i \in RouteIds : WorkerCheck(i)
    \/ \E i \in RouteIds : WorkerDefer(i)
    \/ \E i \in RouteIds : WorkerReturn(i)

SpecWorker == InitWorker /\ [][NextWorker]_vars

\* the reader of the sink has signalled a clean end of stream: the ring is
\* closed and its queue is empty, or the write end of the pipe is closed
SinkEnded(s) ==
    IF s.kind = "ring" THEN s.ring.closed /\ s.ring.queue = << >> ELSE s.wclosed

\* C8: when io.Copy has returned nil on a sink that has signalled a clean end of
\* stream, the worker's next step is to return nil, closing its connection: it
\* does not read the ended sink again.
C8_EndOfStreamEndsWorker ==
    [][\A i \in RouteIds :
         (Alive /\ wk[i].pc = "check" /\ wk[i].cerr = ErrNil /\ SinkEnded(sinks[i])) =>
             \/ wk'[i] = wk[i]
             \/ wk'[i].pc = "defer" /\ wk'[i].ret = ErrNil]_vars

\* ---------------------------------------------------------------- the byte-counting Ring
\* SpecCount: the Ring of NewRingSize. One writer calls Write, one reader calls
\* Read, syncboth counts. A send on an unbuffered channel and the receive that
\* takes it are one step. Write never waits for room, so the bytes stored and not
\* yet returned grow with every Write no Read follows: the writer of the model
\* pauses while another chunk would bring them above MaxAhead, which is more
\* than any Read asks for.
CountWriteLens == {1, RingSize}
CountReadLens == {0, 1, RingSize}
MaxAhead == 2 * RingSize

\* a count that lets every Read through at once
CanGrant_always(available, n) == TRUE

\* syncboth, line 57: the loop for available < n { ... } is left
CanGrant(available, n) == available >= n

\* Ring.Write is called with a chunk of n bytes; line 40 starts: n is the number
\* of bytes copy(r.buffer[r.head:], bs) moves
CountWriteCall(n) ==
    /\ bw.pc = "idle"
    /\ ahead + n <= MaxAhead
    /\ LET bs == Payload(bw.id, n)
       IN bw' = [bw EXCEPT !.pc = "copy", !.bs = bs, !.n = CopyLen(rs.buffer, rs.head, bs), !.i = 0]
    /\ UNCHANGED <<now, rvars, crashed, dvars, rs, sb, br, ahead>>

\* Ring.Write, lines 40 and 42: the copies store one byte a step, the first bw.n
\* bytes from r.head on and the rest from index 0 on; the reader may be copying
\* from r.buffer meanwhile
CountWriteCopy ==
    /\ bw.pc = "copy"
    /\ bw.i < CopyCount(rs.buffer, rs.head, Len(bw.bs))
    /\ rs' = [rs EXCEPT !.buffer =
                 CopyAt(rs.buffer, IF bw.i < bw.n THEN rs.head + bw.i ELSE bw.i - bw.n,
                        <<bw.bs[bw.i + 1]>>)]
    /\ bw' = [bw EXCEPT !.i = bw.i + 1]
    /\ UNCHANGED <<now, rvars, crashed, dvars, sb, br, ahead>>

\* Ring.Write, lines 41-45: the copies are over and r.head moves
CountWriteHead ==
    /\ bw.pc = "copy"
    /\ bw.i = CopyCount(rs.buffer, rs.head, Len(bw.bs))
    /\ rs' = IF bw.n < Len(bw.bs)
             THEN [rs EXCEPT !.head = CopyLen(rs.buffer, 0, Drop(bw.bs, bw.n))]
             ELSE [rs EXCEPT !.head = rs.head + bw.n]
    /\ bw' = [bw EXCEPT !.pc = "send"]
    /\ ahead' = ahead + Len(bw.bs)
    /\ UNCHANGED <<now, rvars, crashed, dvars, sb, br>>

\* Ring.Write, line 46, and syncboth, lines 54-55: r.wchan <- len(bs) is taken by
\* the select; Write returns
SyncRecvWrite ==
    /\ bw.pc = "send"
    /\ sb.pc = "select"
    /\ sb' = [sb EXCEPT !.available = sb.available + Len(bw.bs)]
    /\ bw' = [bw EXCEPT !.pc = "idle", !.bs = << >>, !.n = 0, !.id = 3 - bw.id]
    /\ UNCHANGED <<now, rvars, crashed, dvars, rs, br, ahead>>

\* Ring.Read is called with a buffer of n bytes and reaches line 28
CountReadCall(n) ==
    /\ br.pc = "idle"
    /\ br' = [pc |-> "send", bs |-> Zeros(n), n |-> 0, i |-> 0]
    /\ UNCHANGED <<now, rvars, crashed, dvars, rs, sb, bw, ahead>>

\* Ring.Read, line 28, and syncboth, line 56: r.rchan <- len(bs) is taken by the select
SyncRecvRead ==
    /\ br.pc = "send"
    /\ sb.pc = "select"
    /\ sb' = [sb EXCEPT !.pc = "wait", !.n = Len(br.bs), !.waited = FALSE]
    /\ br' = [br EXCEPT !.pc = "recv"]
    /\ UNCHANGED <<now, rvars, crashed, dvars, rs, bw, ahead>>

\* syncboth, lines 57-60, and Ring.Write, line 46: available < n, the next count
\* of the writer is awaited and added; Write returns
SyncWaitWrite ==
    /\ sb.pc = "wait"
    /\ ~CanGrant(sb.available, sb.n)
    /\ bw.pc = "send"
    /\ sb' = [sb EXCEPT !.available = sb.available + Len(bw.bs), !.waited = TRUE]
    /\ bw' = [bw EXCEPT !.pc = "idle", !.bs = << >>, !.n = 0, !.id = 3 - bw.id]
    /\ UNCHANGED <<now, rvars, crashed, dvars, rs, br, ahead>>

\* syncboth, lines 57 and 61: the loop is left, available -= n
SyncGrant ==
    /\ sb.pc = "wait"
    /\ CanGrant(sb.available, sb.n)
    /\ sb' = [sb EXCEPT !.pc = "reply", !.available = sb.available - sb.n]
    /\ UNCHANGED <<now, rvars, crashed, dvars, rs, bw, br, ahead>>

\* syncboth, line 62, and Ring.Read, line 29: r.rchan <- n is taken by the reader
SyncReply ==
    /\ sb.pc = "reply"
    /\ br.pc = "recv"
    /\ sb' = [sb EXCEPT !.pc = "select", !.n = 0]
    /\ br' = [br EXCEPT !.pc = "copy"]
    /\ UNCHANGED <<now, rvars, crashed, dvars, rs, bw, ahead>>

\* Ring.Read, lines 30 and 32: the copies load one byte a step, the first br.n
\* bytes from r.tail on and the rest from index 0 on; the writer may be storing
\* into r.buffer meanwhile
CountReadCopy ==
    /\ br.pc = "copy"
    /\ br.i < CopyCount(rs.buffer, rs.tail, Len(br.bs))
    /\ LET n == CopyLen(br.bs, 0, Drop(rs.buffer, rs.tail))
       IN br' = [br EXCEPT !.bs = CopyAt(br.bs, br.i,
                                     <<rs.buffer[IF br.i < n THEN rs.tail + br.i + 1
                                                             ELSE br.i - n + 1]>>),
                           !.n = n,
                           !.i = br.i + 1]
    /\ UNCHANGED <<now, rvars, crashed, dvars, rs, sb, bw, ahead>>

\* Ring.Read, lines 31-36: the copies are over, r.tail moves, Read returns len(bs)
CountReadTail ==
    /\ br.pc = "copy"
    /\ br.i = CopyCount(rs.buffer, rs.tail, Len(br.bs))
    /\ LET n == CopyLen(br.bs, 0, Drop(rs.buffer, rs.tail))
       IN rs' = IF n < Len(br.bs)
                THEN [rs EXCEPT !.tail = CopyLen(br.bs, n, rs.buffer)]
                ELSE [rs EXCEPT !.tail = rs.tail + n]
    /\ br' = [br EXCEPT !.pc = "idle"]
    /\ ahead' = ahead - Len(br.bs)
    /\ UNCHANGED <<now, rvars, crashed, dvars, sb, bw>>

NextCount ==
    \/ \E n \in CountWriteLens : CountWriteCall(n)
    \/ CountWriteCopy
    \/ CountWriteHead
    \/ SyncRecvWrite
    \/ \E n \in CountReadLens : CountReadCall(n)
    \/ SyncRecvRead
    \/ SyncWaitWrite
    \/ SyncGrant
    \/ SyncReply
    \/ CountReadCopy
    \/ CountReadTail

SpecCount == InitRing /\ [][NextCount]_vars

\* C24: once syncboth has let a Read through, the bytes Write has stored minus
\* the bytes earlier Reads have returned are at least len(bs), until that Read
\* returns; the count available is never negative and never more than that
\* difference; some step can always be taken, and while the writer waits to hand
\* over its count, syncboth can take a step.
C24_ReadWaitsForBytes ==
    /\ sb.available >= 0
    /\ sb.available <= ahead
    /\ br.pc = "copy" => ahead >= Len(br.bs)
    /\ sb.pc = "reply" => ahead >= sb.n
    /\ ahead >= 0
    /\ ENABLED NextCount
    /\ bw.pc = "send" => ENABLED (SyncRecvWrite \/ SyncWaitWrite \/ SyncGrant \/ SyncReply)
    /\ (br.pc = "recv" /\ bw.pc = "idle" /\ sb.pc = "wait" /\ ~CanGrant(sb.available, sb.n))
           => ENABLED (\E n \in CountWriteLens : CountWriteCall(n))

\* a Read of RingSize bytes found fewer bytes available, waited inside syncboth
\* for the next Write and returned every byte stored
C24_Witness ==
    /\ sb.waited
    /\ br.pc = "idle"
    /\ Len(br.bs) = RingSize
    /\ br.bs[1] # 0
    /\ ahead = 0
    /\ sb.available = 0
====
